---- MODULE Spec2Model ----
(***************************************************************************)
(* A model of the DNS codec and forwarder: the 12-byte header codec        *)
(* (header.rs), the packet assembler (packet.rs), the domain name codec    *)
(* with its compression lookup table (domain_name.rs, record.rs) and the   *)
(* receive/forward/respond loop (main.rs).                                 *)
(*                                                                         *)
(* Strings are sequences of character codes (46 is '.'), byte buffers are  *)
(* sequences of octets 0..255, u16 values are naturals below 65536.        *)
(***************************************************************************)
EXTENDS Integers, Sequences, FiniteSets, TLC

VARIABLES
    \* header codec (header.rs)
    hpc,        \* "start", "written", "read", "done"
    hmode,      \* "value": encode then decode; "bytes": decode then encode
    h0,         \* the header value given (mode "value")
    b0,         \* the 12 bytes given (mode "bytes")
    hv,         \* the DnsHeader currently held
    hb,         \* the byte buffer currently held
    \* packet assembler (packet.rs)
    ppc,        \* "start", "encoded", "decoded", "panicked"
    p0,         \* the DnsPacket given
    pbuf,       \* BytesPacket.buf after the encode
    pdec,       \* the DnsPacket decoded from pbuf
    \* domain name codec and lookup table (domain_name.rs, record.rs)
    npc,        \* "write", "read", "done", "panicked"
    names,      \* the names of the records to encode, in order
    nbuf,       \* the output buffer (header bytes first)
    wtable,     \* the LookupTable of the encode pass
    written,    \* per record written: its name, the offset its name began at, whether it was a pointer
    rcur,       \* read cursor into nbuf (1-based index of the next byte)
    rtable,     \* the LookupTable of the decode pass
    rnames,     \* the names decoded so far
    \* server loop (main.rs)
    pc,               \* "recv", "await", "sent", "failed", "stopped"
    resolver_address, \* TRUE when --resolver was given (the string is not empty)
    orig,             \* the decoded inbound packet
    qi,               \* index of the question whose upstream reply is awaited
    forwarded_msg_id, \* id of the query just sent upstream
    resolved_answers, \* answers returned by the resolver so far
    forwardedSent,    \* packets sent upstream for the current inbound packet
    received,         \* the upstream reply decoded last
    replies,          \* the answer lists of the upstream replies received for the current inbound packet
    response,         \* the response packet of the current inbound packet, once built and sent
    nReceived,        \* inbound datagrams received so far
    nResponded,       \* response datagrams sent to clients so far
    \* packet assembler with an answer section
    apc,            \* "start", "encoded", "panicked"
    stored_answers, \* the answer list stored in the packet given
    abuf,           \* the buffer returned by the encode
    \* class codec (question.rs)
    cpc,        \* "start", "encoded", "decoded", "done"
    cmode,      \* "code": decode a code; "variant": encode a variant, then decode
    c0,         \* the QueryClass given (mode "variant")
    ccode,      \* the 16-bit code held
    cclass      \* the QueryClass decoded last

hvars == <<hpc, hmode, h0, b0, hv, hb>>
pvars == <<ppc, p0, pbuf, pdec>>
nvars == <<npc, names, nbuf, wtable, written, rcur, rtable, rnames>>
svars == <<pc, resolver_address, orig, qi, forwarded_msg_id, resolved_answers,
           forwardedSent, received, replies, response, nReceived, nResponded>>
avars == <<apc, stored_answers, abuf>>
cvars == <<cpc, cmode, c0, ccode, cclass>>
vars == <<hvars, pvars, nvars, svars, avars, cvars>>

-----------------------------------------------------------------------------
(* Integer helpers: the bit operations of the code on fixed-width values.  *)

Pow2(n) == 2 ^ n

\* (x >> n) & 1
Bit(x, n) == (x \div Pow2(n)) % 2

\* x | y on w-bit values
BitOr(x, y, w) ==
    LET RECURSIVE Go(_)
        Go(i) == IF i = w THEN 0
                 ELSE (IF Bit(x, i) = 1 \/ Bit(y, i) = 1 THEN Pow2(i) ELSE 0) + Go(i + 1)
    IN Go(0)

\* x ^ y on w-bit values
BitXor(x, y, w) ==
    LET RECURSIVE Go(_)
        Go(i) == IF i = w THEN 0
                 ELSE (IF Bit(x, i) # Bit(y, i) THEN Pow2(i) ELSE 0) + Go(i + 1)
    IN Go(0)

\* `b as u8`
AsU8(b) == IF b THEN 1 ELSE 0

\* x << n in u8 (bits shifted out are lost)
Shl8(x, n) == (x * Pow2(n)) % 256

Byte == 0 .. 255

\* buf.put_u16(x): big-endian
PutU16(x) == <<(x \div 256) % 256, x % 256>>

\* buf.get_u16() with the cursor on 1-based index i
GetU16(buf, i) == buf[i] * 256 + buf[i + 1]

-----------------------------------------------------------------------------
(* header.rs                                                               *)

ResultCodes == {"NOERROR", "FORMERR", "SERVFAIL", "NXDOMAIN", "NOTIMP", "REFUSED"}

\* `rescode as u8`: the enum discriminants
ResultCodeAsU8(r) ==
    CASE r = "NOERROR" -> 0
      [] r = "FORMERR" -> 1
      [] r = "SERVFAIL" -> 2
      [] r = "NXDOMAIN" -> 3
      [] r = "NOTIMP" -> 4
      [] r = "REFUSED" -> 5

\* impl From<u8> for ResultCode
ResultCodeFromU8(value) ==
    CASE value = 1 -> "FORMERR"
      [] value = 2 -> "SERVFAIL"
      [] value = 3 -> "NXDOMAIN"
      [] value = 4 -> "NOTIMP"
      [] value = 5 -> "REFUSED"
      [] OTHER -> "NOERROR"

\* DnsHeader::new(): #[derive(Default)]
DnsHeaderNew ==
    [id |-> 0, response |-> FALSE, opcode |-> 0, authoritative_answer |-> FALSE,
     truncated_message |-> FALSE, recursion_desired |-> FALSE,
     recursion_available |-> FALSE, checking_disabled |-> FALSE,
     authed_data |-> FALSE, z |-> FALSE, rescode |-> "NOERROR",
     question_entries |-> 0, answer_entries |-> 0, authoritative_entries |-> 0,
     additional_entries |-> 0]

\* DnsHeader::read_bytes on a header `self`, the cursor of buf on index 1
HeaderReadBytes(self, buf) ==
    LET flags == GetU16(buf, 3)
        a == (flags \div 256) % 256
        b == flags % 256
    IN [self EXCEPT
          !.id = GetU16(buf, 1),
          !.response = Bit(a, 7) > 0,
          !.opcode = (a \div 8) % 16,
          !.authoritative_answer = Bit(a, 2) > 0,
          !.truncated_message = Bit(a, 1) > 0,
          !.recursion_desired = Bit(a, 0) > 0,
          !.recursion_available = Bit(b, 7) > 0,
          !.z = Bit(b, 6) > 0,
          !.rescode = ResultCodeFromU8(b % 16),
          !.question_entries = GetU16(buf, 5),
          !.answer_entries = GetU16(buf, 7),
          !.authoritative_entries = GetU16(buf, 9),
          !.additional_entries = GetU16(buf, 11)]

\* DnsHeader::write_bytes: the 12 bytes appended to the buffer
HeaderWriteBytes(self) ==
    LET a == BitOr(BitOr(BitOr(BitOr(Shl8(AsU8(self.response), 7),
                                     Shl8(self.opcode, 3), 8),
                               Shl8(AsU8(self.authoritative_answer), 2), 8),
                         Shl8(AsU8(self.truncated_message), 1), 8),
                   AsU8(self.recursion_desired), 8)
        b == BitOr(BitOr(Shl8(AsU8(self.recursion_available), 7),
                         Shl8(AsU8(self.z), 6), 8),
                   ResultCodeAsU8(self.rescode), 8)
        flags == BitOr(a * 256, b, 16)
    IN PutU16(self.id) \o PutU16(flags) \o PutU16(self.question_entries)
       \o PutU16(self.answer_entries) \o PutU16(self.authoritative_entries)
       \o PutU16(self.additional_entries)

(* Inputs of the header codec. *)
IdValues == {0, 43981}
Opcodes == {0, 2, 15}
CountSamples == {<<0, 0, 0, 0>>, <<1, 0, 6, 0>>, <<258, 1, 0, 65535>>}
FlagOctetASamples == {0, 133, 122, 255}

HeaderValues ==
    {[id |-> i, response |-> f[1], opcode |-> o, authoritative_answer |-> f[2],
      truncated_message |-> f[3], recursion_desired |-> f[4],
      recursion_available |-> f[5], checking_disabled |-> f[6],
      authed_data |-> f[7], z |-> f[8], rescode |-> r,
      question_entries |-> c[1], answer_entries |-> c[2],
      authoritative_entries |-> c[3], additional_entries |-> c[4]] :
        i \in IdValues, o \in Opcodes, f \in [1 .. 8 -> BOOLEAN],
        r \in ResultCodes, c \in CountSamples}

HeaderBytes ==
    {PutU16(i) \o <<a, b>> \o PutU16(c[1]) \o PutU16(c[2]) \o PutU16(c[3]) \o PutU16(c[4]) :
        i \in IdValues, a \in FlagOctetASamples, b \in Byte, c \in CountSamples}

HIdle ==
    /\ hpc = "idle" /\ hmode = "none" /\ h0 = DnsHeaderNew /\ b0 = <<>>
    /\ hv = DnsHeaderNew /\ hb = <<>>

HInit ==
    /\ hpc = "start"
    /\ \/ hmode = "value" /\ h0 \in HeaderValues /\ b0 = <<>>
       \/ hmode = "bytes" /\ b0 \in HeaderBytes /\ h0 = DnsHeaderNew
    /\ hv = h0
    /\ hb = b0

\* header.write_bytes(&mut buf) into an empty buffer
HeaderWrite ==
    /\ \/ hmode = "value" /\ hpc = "start" /\ hpc' = "written"
       \/ hmode = "bytes" /\ hpc = "read" /\ hpc' = "done"
    /\ hb' = HeaderWriteBytes(hv)
    /\ UNCHANGED <<hmode, h0, b0, hv>>

\* DnsHeader::new() then header.read_bytes(&mut buf)
HeaderRead ==
    /\ \/ hmode = "value" /\ hpc = "written" /\ hpc' = "done"
       \/ hmode = "bytes" /\ hpc = "start" /\ hpc' = "read"
    /\ hv' = HeaderReadBytes(DnsHeaderNew, hb)
    /\ UNCHANGED <<hmode, h0, b0, hb>>

-----------------------------------------------------------------------------
(* question.rs: QueryType, QueryClass                                      *)

\* A type or class is <<variant>> or <<"UNKNOWN", code>>
QueryTypeFromU16(value) ==
    IF value = 1 THEN <<"A">> ELSE <<"UNKNOWN", value>>

QueryTypeIntoU16(value) ==
    IF value[1] = "A" THEN 1 ELSE value[2]

QueryClassFromU16(value) ==
    CASE value = 1 -> <<"IN">>
      [] value = 2 -> <<"CS">>
      [] value = 3 -> <<"CH">>
      [] value = 4 -> <<"HS">>
      [] OTHER -> <<"UNKNOWN", value>>

QueryClassIntoU16(value) ==
    CASE value[1] = "IN" -> 1
      [] value[1] = "CS" -> 2
      [] value[1] = "CH" -> 3
      [] value[1] = "HS" -> 4
      [] value[1] = "ANY" -> 255
      [] value[1] = "UNKNOWN" -> value[2]

\* DnsQuestion::new
DnsQuestionNew(domain_name, query_type, class) ==
    [domain_name |-> domain_name, query_type |-> query_type, class |-> class]

-----------------------------------------------------------------------------
(* Strings                                                                 *)

Dot == 46

\* str::split('.'): the pieces between the dots ("a.b." gives "a", "b", "")
Split(s) ==
    LET RECURSIVE Go(_, _, _)
        Go(i, cur, acc) ==
            IF i > Len(s) THEN Append(acc, cur)
            ELSE IF s[i] = Dot THEN Go(i + 1, <<>>, Append(acc, cur))
            ELSE Go(i + 1, Append(cur, s[i]), acc)
    IN Go(1, <<>>, <<>>)

\* for label in name.split('.') { put_u8(label.len() as u8); put(label.as_bytes()) }
PutLabels(name) ==
    LET labels == Split(name)
        RECURSIVE Go(_)
        Go(i) == IF i > Len(labels) THEN <<>>
                 ELSE <<Len(labels[i]) % 256>> \o labels[i] \o Go(i + 1)
    IN Go(1)

-----------------------------------------------------------------------------
(* packet.rs                                                               *)

\* DnsPacket::new()
DnsPacketNew == [header |-> DnsHeaderNew, questions |-> <<>>]

\* an encode that writes the questions it finds and never fails
BytesPacketFromStoredOnly(value) ==
    LET header == value.header
        n == IF header.question_entries > Len(value.questions)
             THEN Len(value.questions) ELSE header.question_entries
        RECURSIVE Go(_)
        Go(i) == IF i > n THEN <<>>
                 ELSE PutLabels(value.questions[i].domain_name) \o Go(i + 1)
    IN [ok |-> TRUE,
        buf |-> HeaderWriteBytes(header) \o Go(1)
                \o PutU16(QueryTypeIntoU16(<<"A">>))
                \o PutU16(QueryClassIntoU16(<<"IN">>))]

\* impl From<DnsPacket> for BytesPacket; ok = FALSE when the expect() panics
BytesPacketFrom(value) ==
    LET header == value.header
        n == header.question_entries
        RECURSIVE Go(_)
        Go(i) == IF i > n THEN <<>>
                 ELSE PutLabels(value.questions[i].domain_name) \o Go(i + 1)
    IN IF n > Len(value.questions)
       THEN [ok |-> FALSE, buf |-> <<>>]
       ELSE [ok |-> TRUE,
             buf |-> HeaderWriteBytes(header) \o Go(1)
                     \o PutU16(QueryTypeIntoU16(<<"A">>))
                     \o PutU16(QueryClassIntoU16(<<"IN">>))]

\* the name loop of the decode: ok = FALSE when a get_u8 runs past the buffer
PacketReadName(buf, start) ==
    LET RECURSIVE Go(_, _)
        Go(i, acc) ==
            IF i > Len(buf) THEN [ok |-> FALSE, name |-> acc, next |-> i]
            ELSE IF buf[i] = 0 THEN [ok |-> TRUE, name |-> acc, next |-> i + 1]
            ELSE IF i + buf[i] > Len(buf) THEN [ok |-> FALSE, name |-> acc, next |-> i]
            ELSE Go(i + 1 + buf[i], acc \o SubSeq(buf, i + 1, i + buf[i]) \o <<Dot>>)
    IN Go(start, <<>>)

\* impl From<BytesPacket> for DnsPacket; ok = FALSE when a get runs past the buffer
DnsPacketFrom(buf) ==
    LET header == HeaderReadBytes(DnsHeaderNew, buf)
        RECURSIVE Go(_, _, _)
        Go(k, i, questions) ==
            IF k = 0 THEN [ok |-> TRUE, packet |-> [header |-> header, questions |-> questions]]
            ELSE LET nm == PacketReadName(buf, i)
                 IN IF ~nm.ok \/ nm.next + 3 > Len(buf)
                    THEN [ok |-> FALSE, packet |-> DnsPacketNew]
                    ELSE Go(k - 1, nm.next + 4,
                            Append(questions,
                                   DnsQuestionNew(nm.name,
                                                  QueryTypeFromU16(GetU16(buf, nm.next)),
                                                  QueryClassFromU16(GetU16(buf, nm.next + 2)))))
    IN IF Len(buf) < 12 THEN [ok |-> FALSE, packet |-> DnsPacketNew]
       ELSE Go(header.question_entries, 13, <<>>)

(* Inputs of the packet assembler. *)
MaxQuestions == 2

\* "a." and "bc.d."
PacketNames == {<<97, Dot>>, <<98, 99, Dot, 100, Dot>>}
PacketTypes == {<<"A">>, <<"UNKNOWN", 2>>}
PacketClasses == {<<"IN">>, <<"ANY">>, <<"UNKNOWN", 7>>}
PacketQuestions ==
    {DnsQuestionNew(n, t, c) : n \in PacketNames, t \in PacketTypes, c \in PacketClasses}

SeqsUpTo(S, n) == UNION {[1 .. k -> S] : k \in 0 .. n}

PacketHeaders ==
    {[DnsHeaderNew EXCEPT !.id = 1234, !.response = r, !.truncated_message = r,
                          !.rescode = IF r THEN "SERVFAIL" ELSE "NOERROR",
                          !.authoritative_entries = IF r THEN 6 ELSE 0,
                          !.question_entries = qe, !.answer_entries = ae] :
        r \in BOOLEAN, qe \in 0 .. MaxQuestions, ae \in 0 .. 1}

PIdle ==
    /\ ppc = "idle" /\ p0 = DnsPacketNew /\ pbuf = <<>> /\ pdec = DnsPacketNew

PInit ==
    /\ ppc = "start"
    /\ p0 \in {[header |-> h, questions |-> qs] :
                 h \in PacketHeaders, qs \in SeqsUpTo(PacketQuestions, MaxQuestions)}
    /\ pbuf = <<>>
    /\ pdec = DnsPacketNew

\* BytesPacket::from(dns_packet)
PacketEncode ==
    /\ ppc = "start"
    /\ LET r == BytesPacketFrom(p0)
       IN /\ ppc' = IF r.ok THEN "encoded" ELSE "panicked"
          /\ pbuf' = r.buf
    /\ UNCHANGED <<p0, pdec>>

\* DnsPacket::from(bytes_packet)
PacketDecode ==
    /\ ppc = "encoded"
    /\ LET r == DnsPacketFrom(pbuf)
       IN /\ ppc' = IF r.ok THEN "decoded" ELSE "panicked"
          /\ pdec' = r.packet
    /\ UNCHANGED <<p0, pbuf>>

-----------------------------------------------------------------------------
(* domain_name.rs: LookupTable                                             *)

\* LookupTable::new(pos): both maps empty
LookupTableNew(pos) == [pos |-> pos, decompression |-> <<>>, compression |-> <<>>]

\* HashMap::insert: a later value replaces an earlier one under the same key
MapInsert(map, k, v) == (k :> v) @@ map

\* the labels of the first loop of insert: split('.') up to the first empty piece
InsertLabels(s) ==
    LET pieces == Split(s)
        RECURSIVE Go(_)
        Go(i) == IF i > Len(pieces) \/ pieces[i] = <<>> THEN <<>>
                 ELSE <<pieces[i] \o <<Dot>>>> \o Go(i + 1)
    IN Go(1)

\* the concatenation of labels[i..]
JoinFrom(labels, i) ==
    LET RECURSIVE Go(_)
        Go(k) == IF k > Len(labels) THEN <<>> ELSE labels[k] \o Go(k + 1)
    IN Go(i)

\* the position given to labels[i]: pos plus the lengths of the labels before it
LabelPos(labels, pos, i) ==
    LET RECURSIVE Go(_)
        Go(k) == IF k >= i THEN 0 ELSE Len(labels[k]) + Go(k + 1)
    IN (pos + Go(1)) % 65536

\* a variant of insert that records the whole name only, none of its shorter suffixes
LookupTableInsertFullNameOnly(self, domain_name) ==
    LET label == JoinFrom(InsertLabels(domain_name), 1)
    IN IF label = <<>> THEN self
       ELSE [pos |-> self.pos,
             decompression |-> MapInsert(self.decompression, self.pos, label),
             compression |-> MapInsert(self.compression, label, self.pos)]

\* LookupTable::insert
LookupTableInsert(self, domain_name) ==
    LET labels == InsertLabels(domain_name)
        RECURSIVE Go(_, _)
        Go(i, t) ==
            IF i > Len(labels) THEN t
            ELSE LET pos == LabelPos(labels, self.pos, i)
                     label == JoinFrom(labels, i)
                 IN Go(i + 1,
                       [pos |-> pos,
                        decompression |-> MapInsert(t.decompression, pos, label),
                        compression |-> MapInsert(t.compression, label, pos)])
    IN Go(1, self)

\* a variant that answers an unrecorded offset with the empty name
LookupTableDecompressOrEmpty(self, pos) ==
    IF pos \in DOMAIN self.decompression
    THEN [some |-> TRUE, value |-> self.decompression[pos]]
    ELSE [some |-> TRUE, value |-> <<>>]

\* LookupTable::decompress: Some = FALSE for None
LookupTableDecompress(self, pos) ==
    IF pos \in DOMAIN self.decompression
    THEN [some |-> TRUE, value |-> self.decompression[pos]]
    ELSE [some |-> FALSE, value |-> <<>>]

\* LookupTable::compress: Some = FALSE for None
LookupTableCompress(self, domain_name) ==
    IF domain_name \in DOMAIN self.compression
    THEN [some |-> TRUE, value |-> self.compression[domain_name]]
    ELSE [some |-> FALSE, value |-> 0]

-----------------------------------------------------------------------------
(* domain_name.rs: DomainName                                              *)

\* DomainName::write_bytes: the bytes appended and the table afterwards
DomainNameWriteBytes(self, lookup_table) ==
    LET c == LookupTableCompress(lookup_table, self)
    IN IF c.some
       THEN [bytes |-> PutU16(BitOr(c.value, 49152, 16)), table |-> lookup_table]
       ELSE [bytes |-> PutLabels(self), table |-> LookupTableInsert(lookup_table, self)]

\* DomainName::read_bytes on a new name, the cursor of buf on 1-based index start;
\* ok = FALSE when a get_u8 runs past the buffer or the expect() on decompress panics
DomainNameFromBytes(buf, start, lookup_table) ==
    LET RECURSIVE Go(_, _)
        Go(i, acc) ==
            IF i > Len(buf)
            THEN [ok |-> FALSE, name |-> acc, next |-> i, table |-> lookup_table]
            ELSE IF buf[i] = 0
            THEN [ok |-> TRUE, name |-> acc, next |-> i + 1,
                  table |-> LookupTableInsert(lookup_table, acc)]
            ELSE IF buf[i] \div 64 = 3
            THEN IF i + 1 > Len(buf)
                 THEN [ok |-> FALSE, name |-> acc, next |-> i, table |-> lookup_table]
                 ELSE LET pos == BitOr((BitXor(buf[i], 192, 16) * 256) % 65536, buf[i + 1], 16)
                          label == LookupTableDecompress(lookup_table, pos)
                      IN [ok |-> label.some, name |-> acc \o label.value, next |-> i + 2,
                          table |-> lookup_table]
            ELSE IF i + buf[i] > Len(buf)
            THEN [ok |-> FALSE, name |-> acc, next |-> i, table |-> lookup_table]
            ELSE Go(i + 1 + buf[i], acc \o SubSeq(buf, i + 1, i + buf[i]) \o <<Dot>>)
    IN Go(start, <<>>)

-----------------------------------------------------------------------------
(* record.rs                                                               *)

RecordTypeFromU16(value) ==
    IF value = 1 THEN <<"A">> ELSE <<"UNKNOWN", value>>

RecordTypeIntoU16(value) ==
    IF value[1] = "A" THEN 1 ELSE value[2]

RecordClassFromU16(value) ==
    CASE value = 1 -> <<"IN">>
      [] value = 2 -> <<"CS">>
      [] value = 3 -> <<"CH">>
      [] value = 4 -> <<"HS">>
      [] OTHER -> <<"UNKNOWN", value>>

RecordClassIntoU16(value) ==
    CASE value[1] = "IN" -> 1
      [] value[1] = "CS" -> 2
      [] value[1] = "CH" -> 3
      [] value[1] = "HS" -> 4
      [] value[1] = "UNKNOWN" -> value[2]

\* buf.put_u32(x): big-endian
PutU32(x) == <<(x \div 16777216) % 256, (x \div 65536) % 256, (x \div 256) % 256, x % 256>>

\* buf.get_u32() with the cursor on 1-based index i
GetU32(buf, i) == GetU16(buf, i) * 65536 + GetU16(buf, i + 2)

\* DnsRecord::new: length is 4
DnsRecordNew(domain_name, record_type, class, ttl, data) ==
    [domain_name |-> domain_name, record_type |-> record_type, class |-> class,
     ttl |-> ttl, length |-> 4, data |-> data]

\* DnsRecord::write_bytes: the bytes appended, those of the name among them, and the table afterwards
DnsRecordWriteBytes(self, lookup_table) ==
    LET nm == DomainNameWriteBytes(self.domain_name, lookup_table)
    IN [name_bytes |-> nm.bytes,
        bytes |-> nm.bytes \o PutU16(RecordTypeIntoU16(<<"A">>))
                  \o PutU16(RecordClassIntoU16(<<"IN">>))
                  \o PutU32(self.ttl) \o PutU16(self.length) \o self.data,
        table |-> nm.table]

\* DnsRecord::from_bytes, the cursor of buf on 1-based index start
DnsRecordFromBytes(buf, start, lookup_table) ==
    LET nm == DomainNameFromBytes(buf, start, lookup_table)
        i == nm.next
    IN IF ~nm.ok \/ i + 13 > Len(buf)
       THEN [ok |-> FALSE, record |-> DnsRecordNew(nm.name, <<"A">>, <<"IN">>, 0, <<0, 0, 0, 0>>),
             next |-> i, table |-> nm.table]
       ELSE [ok |-> TRUE,
             record |-> DnsRecordNew(nm.name, RecordTypeFromU16(GetU16(buf, i)),
                                     RecordClassFromU16(GetU16(buf, i + 2)),
                                     GetU32(buf, i + 4), SubSeq(buf, i + 10, i + 13)),
             next |-> i + 14, table |-> nm.table]

-----------------------------------------------------------------------------
(* The answer section of one packet: every record is written through one   *)
(* LookupTable created at offset 12, after the 12 header bytes, and read   *)
(* back through another one created at offset 12.                          *)

MaxNames == 3

\* the bytes before the first entry: the encoded header
HeaderLen == Len(HeaderWriteBytes(DnsHeaderNew))

\* "mail.example.com.", "example.com.", "com.", "a.com.", "a." and the root
MailExampleCom == <<109, 97, 105, 108, Dot, 101, 120, 97, 109, 112, 108, 101, Dot, 99, 111, 109, Dot>>
ExampleCom == <<101, 120, 97, 109, 112, 108, 101, Dot, 99, 111, 109, Dot>>
Com == <<99, 111, 109, Dot>>
NameSamples == {MailExampleCom, ExampleCom, Com, <<97, Dot, 99, 111, 109, Dot>>, <<97, Dot>>, <<>>}

\* the record the server fabricates for a name: A, IN, TTL 60, 8.8.8.8
AnswerFor(domain_name) == DnsRecordNew(domain_name, <<"A">>, <<"IN">>, 60, <<8, 8, 8, 8>>)

NIdle ==
    /\ npc = "idle" /\ names = <<>> /\ nbuf = <<>> /\ wtable = LookupTableNew(HeaderLen)
    /\ written = <<>> /\ rcur = 0 /\ rtable = LookupTableNew(HeaderLen) /\ rnames = <<>>

\* the bytes of a record after its name: type, class, ttl, length, data
RecordTail ==
    LET r == DnsRecordWriteBytes(AnswerFor(<<>>), LookupTableNew(HeaderLen))
    IN SubSeq(r.bytes, Len(r.name_bytes) + 1, Len(r.bytes))

\* the two octets of a compression pointer to offset pos
WirePointer(pos) == PutU16(BitOr(pos, 49152, 16))

\* offsets a received pointer may designate: the first name (12), its second label
\* when it is "b.a." (14), the second name when the first is "a." (29) or "b.a." (31),
\* and an offset where no name starts (40)
PointerOffsets == {HeaderLen, HeaderLen + 2, HeaderLen + 17, HeaderLen + 19, HeaderLen + 28}

\* names as they arrive on the wire: "a." and "b.a." in full, a pointer, or the
\* label "b" followed by a pointer
WireNames ==
    {PutLabels(<<97, Dot>>), PutLabels(<<98, Dot, 97, Dot>>)}
        \cup {WirePointer(pos) : pos \in PointerOffsets}
        \cup {<<1, 98>> \o WirePointer(pos) : pos \in {HeaderLen, HeaderLen + 28}}

\* a received message: the header, then one record per wire name
WireMessage(ws) ==
    LET RECURSIVE Go(_)
        Go(i) == IF i > Len(ws) THEN <<>> ELSE ws[i] \o RecordTail \o Go(i + 1)
    IN HeaderWriteBytes([DnsHeaderNew EXCEPT !.answer_entries = Len(ws)]) \o Go(1)

NInit ==
    /\ \/ /\ npc = "write"
          /\ names \in SeqsUpTo(NameSamples, MaxNames) \ {<<>>}
          /\ nbuf = HeaderWriteBytes([DnsHeaderNew EXCEPT !.answer_entries = Len(names)])
       \/ /\ npc = "read"
          /\ names = <<>>
          /\ nbuf \in {WireMessage(ws) : ws \in SeqsUpTo(WireNames, MaxNames) \ {<<>>}}
    /\ wtable = LookupTableNew(HeaderLen)
    /\ written = <<>>
    /\ rcur = HeaderLen + 1
    /\ rtable = LookupTableNew(HeaderLen)
    /\ rnames = <<>>

\* the encode loop over the answers: answer.write_bytes(&mut buf, &mut lookup_table)
WriteRecord ==
    /\ npc = "write"
    /\ LET k == Len(written) + 1
           r == DnsRecordWriteBytes(AnswerFor(names[k]), wtable)
       IN /\ nbuf' = nbuf \o r.bytes
          /\ wtable' = r.table
          /\ written' = Append(written,
                               [name |-> names[k], offset |-> Len(nbuf),
                                bytes |-> r.name_bytes,
                                pointer |-> LookupTableCompress(wtable, names[k]).some])
          /\ npc' = IF k = Len(names) THEN "read" ELSE "write"
    /\ UNCHANGED <<names, rcur, rtable, rnames>>

\* the decode loop over the answers: DnsRecord::from_bytes(&mut buf, &mut lookup_table)
ReadRecord ==
    /\ npc = "read"
    /\ LET r == DnsRecordFromBytes(nbuf, rcur, rtable)
       IN /\ rcur' = r.next
          /\ rtable' = r.table
          /\ rnames' = IF r.ok THEN Append(rnames, r.record.domain_name) ELSE rnames
          /\ npc' = IF ~r.ok THEN "panicked"
                    ELSE IF Len(rnames) + 1 = GetU16(nbuf, 7) THEN "done" ELSE "read"
    /\ UNCHANGED <<names, nbuf, wtable, written>>

-----------------------------------------------------------------------------
(* The packet assembler with an answer section: the header, then           *)
(* question_entries questions, then answer_entries records, all through    *)
(* one fresh LookupTable starting at offset 12.                            *)

MaxAnswers == 1

\* DnsQuestion::write_bytes(buf, lookup_table)
DnsQuestionWriteBytes(self, lookup_table) ==
    LET n == DomainNameWriteBytes(self.domain_name, lookup_table)
    IN [bytes |-> n.bytes \o PutU16(QueryTypeIntoU16(<<"A">>))
                    \o PutU16(QueryClassIntoU16(<<"IN">>)),
        table |-> n.table]

\* encode(packet): ok = FALSE when a section is indexed past its stored length
AssemblerEncode(value, answers) ==
    LET header == value.header
        RECURSIVE Answers(_, _, _)
        Answers(i, bytes, table) ==
            IF i > header.answer_entries THEN [ok |-> TRUE, buf |-> bytes]
            ELSE IF i > Len(answers) THEN [ok |-> FALSE, buf |-> <<>>]
            ELSE LET r == DnsRecordWriteBytes(answers[i], table)
                 IN Answers(i + 1, bytes \o r.bytes, r.table)
        RECURSIVE Questions(_, _, _)
        Questions(i, bytes, table) ==
            IF i > header.question_entries THEN Answers(1, bytes, table)
            ELSE IF i > Len(value.questions) THEN [ok |-> FALSE, buf |-> <<>>]
            ELSE LET r == DnsQuestionWriteBytes(value.questions[i], table)
                 IN Questions(i + 1, bytes \o r.bytes, r.table)
    IN Questions(1, HeaderWriteBytes(header), LookupTableNew(HeaderLen))

AIdle ==
    /\ apc = "idle" /\ stored_answers = <<>> /\ abuf = <<>>

AInit ==
    /\ apc = "start"
    /\ stored_answers \in SeqsUpTo({AnswerFor(n) : n \in PacketNames}, MaxAnswers)
    /\ abuf = <<>>

\* the encode of the packet p0 with the answer list stored_answers
AssemblerEncodeAll ==
    /\ apc = "start"
    /\ ppc \in {"decoded", "panicked"}
    /\ LET r == AssemblerEncode(p0, stored_answers)
       IN /\ apc' = IF r.ok THEN "encoded" ELSE "panicked"
          /\ abuf' = r.buf
    /\ UNCHANGED stored_answers

-----------------------------------------------------------------------------
(* question.rs: the class codec on its own                                 *)

MaxClassCode == 260

ClassCodes == (0 .. MaxClassCode) \cup {65535}

\* the variants a decode can be asked to reproduce
ClassVariants ==
    {<<"IN">>, <<"CS">>, <<"CH">>, <<"HS">>, <<"ANY">>}
        \cup {<<"UNKNOWN", n>> : n \in ClassCodes \ {1, 2, 3, 4, 255}}

CIdle ==
    /\ cpc = "idle" /\ cmode = "code" /\ c0 = <<"IN">> /\ ccode = 0 /\ cclass = <<"IN">>

CInit ==
    /\ cpc = "start"
    /\ \/ cmode = "code" /\ ccode \in ClassCodes /\ c0 = <<"IN">>
       \/ cmode = "variant" /\ c0 \in ClassVariants /\ ccode = 0
    /\ cclass = <<"IN">>

\* let code: u16 = class.into()
ClassIntoU16 ==
    /\ cpc = "start" /\ cmode = "variant"
    /\ ccode' = QueryClassIntoU16(c0)
    /\ cpc' = "encoded"
    /\ UNCHANGED <<cmode, c0, cclass>>

\* QueryClass::from(code)
ClassFromU16 ==
    /\ \/ cpc = "start" /\ cmode = "code"
       \/ cpc = "encoded" /\ cmode = "variant"
    /\ cclass' = QueryClassFromU16(ccode)
    /\ cpc' = IF cmode = "code" THEN "decoded" ELSE "done"
    /\ UNCHANGED <<cmode, c0, ccode>>

-----------------------------------------------------------------------------
(* main.rs: the receive / forward / respond loop.  The packets of the loop *)
(* carry an answer list next to the header and the questions.              *)

\* DnsPacket::new() as main.rs uses it: header, questions, answers
ServerPacketNew == [header |-> DnsHeaderNew, questions |-> <<>>, answers |-> <<>>]

\* `len() as u16`
AsU16(n) == n % 65536

\* a variant that forwards the inbound question list whole
ForwardedPacketAllQuestions(inbound, q, id) ==
    [header |-> [inbound.header EXCEPT !.id = id],
     questions |-> inbound.questions,
     answers |-> <<>>]

\* the packet forwarded for question q of the inbound packet, with the fresh id
ForwardedPacket(inbound, q, id) ==
    [header |-> [inbound.header EXCEPT !.question_entries = 1, !.id = id],
     questions |-> <<q>>,
     answers |-> <<>>]

\* a variant that accepts every reply
IdMismatchIgnored(received_id, sent_id) == FALSE

\* received.header.id != forwarded_msg_id
IdMismatch(received_id, sent_id) == received_id # sent_id

\* for answer in received.answers { resolved_answers.push(answer) }
CollectAnswers(collected, reply) == collected \o reply.answers

\* a variant that never reports NOTIMP
ResponseRescodeAlwaysNoError(opcode) == "NOERROR"

\* match orig.header.opcode { 0 => NOERROR, _ => NOTIMP }
ResponseRescode(opcode) == IF opcode = 0 THEN "NOERROR" ELSE "NOTIMP"

\* a variant that answers the first question only
SyntheticAnswersFirstOnly(questions) ==
    [i \in 1 .. (IF questions = <<>> THEN 0 ELSE 1) |-> AnswerFor(questions[i].domain_name)]

\* the record made for a question when resolved_answers is empty
SyntheticAnswers(questions) ==
    [i \in 1 .. Len(questions) |-> AnswerFor(questions[i].domain_name)]

\* the response packet built after the forwarding loop
BuildResponse(inbound, answers_resolved) ==
    LET answers == IF answers_resolved = <<>>
                   THEN SyntheticAnswers(inbound.questions)
                   ELSE answers_resolved
    IN [header |-> [DnsHeaderNew EXCEPT
                      !.id = inbound.header.id,
                      !.response = TRUE,
                      !.opcode = inbound.header.opcode,
                      !.recursion_desired = inbound.header.recursion_desired,
                      !.rescode = ResponseRescode(inbound.header.opcode),
                      !.question_entries = AsU16(Len(inbound.questions)),
                      !.answer_entries = AsU16(Len(answers))],
        questions |-> inbound.questions,
        answers |-> answers]

(* Inputs of the loop. *)
MaxInbound == 2
MaxInboundQuestions == 2
MaxReplyAnswers == 1

InboundIds == {7, 8}
RandomIds == {7, 9}
InboundOpcodes == {0, 2}
InboundAnswerCounts == {0, 1}
\* "a." A IN and "a.com." UNKNOWN(28) IN
InboundQuestions ==
    {DnsQuestionNew(<<97, Dot>>, <<"A">>, <<"IN">>),
     DnsQuestionNew(<<97, Dot, 99, 111, 109, Dot>>, <<"UNKNOWN", 28>>, <<"IN">>)}
ReplyRescodes == {"NOERROR", "SERVFAIL"}

\* a decoded inbound packet: as many questions and answers as its header declares
InboundPackets ==
    {[header |-> [DnsHeaderNew EXCEPT !.id = i, !.opcode = o, !.recursion_desired = rd,
                                      !.question_entries = Len(qs), !.answer_entries = ae],
      questions |-> qs,
      answers |-> [k \in 1 .. ae |-> DnsRecordNew(<<>>, <<"UNKNOWN", 0>>, <<"UNKNOWN", 0>>, 0, <<0, 0, 0, 0>>)]] :
        i \in InboundIds, o \in InboundOpcodes, rd \in BOOLEAN,
        ae \in InboundAnswerCounts, qs \in SeqsUpTo(InboundQuestions, MaxInboundQuestions)}

\* a decoded upstream reply to the query for question q: up to MaxReplyAnswers
\* address records for the name asked
UpstreamReplies(q) ==
    {[header |-> [DnsHeaderNew EXCEPT !.id = i, !.response = TRUE, !.rescode = r,
                                      !.question_entries = 1, !.answer_entries = n],
      questions |-> <<q>>,
      answers |-> [k \in 1 .. n |-> DnsRecordNew(q.domain_name, <<"A">>, <<"IN">>, 300, <<1, 2, 3, k>>)]] :
        i \in RandomIds, r \in ReplyRescodes, n \in 0 .. MaxReplyAnswers}

\* the locals of one iteration of the loop, before recv_from returns
LoopLocalsInit ==
    /\ orig = ServerPacketNew
    /\ qi = 0
    /\ forwarded_msg_id = 0
    /\ resolved_answers = <<>>
    /\ forwardedSent = <<>>
    /\ received = ServerPacketNew
    /\ replies = <<>>
    /\ response = ServerPacketNew

SInit ==
    /\ pc = "recv"
    /\ resolver_address \in BOOLEAN
    /\ LoopLocalsInit
    /\ nReceived = 0
    /\ nResponded = 0

\* recv_from, decode, and (a resolver being configured) the first forwarded query,
\* up to the blocking recv_from on the resolver socket
ReceiveAndForward ==
    /\ pc = "recv"
    /\ resolver_address
    /\ \E inbound \in InboundPackets, id \in RandomIds :
          /\ inbound.questions # <<>>
          /\ orig' = inbound
          /\ forwarded_msg_id' = id
          /\ forwardedSent' = <<ForwardedPacket(inbound, inbound.questions[1], id)>>
    /\ qi' = 1
    /\ pc' = "await"
    /\ nReceived' = nReceived + 1
    /\ UNCHANGED <<resolver_address, resolved_answers, received, replies, response, nResponded>>

\* recv_from, decode, no query to forward: the response is built and sent
ReceiveAndRespond ==
    /\ pc = "recv"
    /\ \E inbound \in InboundPackets :
          /\ ~resolver_address \/ inbound.questions = <<>>
          /\ orig' = inbound
          /\ response' = BuildResponse(inbound, resolved_answers)
    /\ pc' = "sent"
    /\ nReceived' = nReceived + 1
    /\ nResponded' = nResponded + 1
    /\ UNCHANGED <<resolver_address, qi, forwarded_msg_id, resolved_answers, forwardedSent,
                   received, replies>>

\* recv_from on the main socket fails: the loop breaks and main returns
ReceiveError ==
    /\ pc = "recv"
    /\ pc' = "stopped"
    /\ UNCHANGED <<resolver_address, orig, qi, forwarded_msg_id, resolved_answers,
                   forwardedSent, received, replies, response, nReceived, nResponded>>

\* the reply to the query of question qi arrives with another id: bail!
ReplyMismatch ==
    /\ pc = "await"
    /\ \E reply \in UpstreamReplies(orig.questions[qi]) :
          /\ IdMismatch(reply.header.id, forwarded_msg_id)
          /\ received' = reply
          /\ replies' = Append(replies, reply.answers)
    /\ pc' = "failed"
    /\ UNCHANGED <<resolver_address, orig, qi, forwarded_msg_id, resolved_answers,
                   forwardedSent, response, nReceived, nResponded>>

\* a variant that sends the query of the next question without waiting for the reply
\* to the one outstanding
ForwardWithoutReply ==
    /\ pc = "await"
    /\ qi < Len(orig.questions)
    /\ \E id \in RandomIds :
          /\ forwarded_msg_id' = id
          /\ forwardedSent' = Append(forwardedSent,
                                     ForwardedPacket(orig, orig.questions[qi + 1], id))
    /\ qi' = qi + 1
    /\ UNCHANGED <<pc, resolver_address, orig, resolved_answers, received, replies,
                   response, nReceived, nResponded>>

\* the reply to the query of question qi arrives, questions remain: its answers are
\* collected and the next question is forwarded
ReplyAndForward ==
    /\ pc = "await"
    /\ qi < Len(orig.questions)
    /\ \E reply \in UpstreamReplies(orig.questions[qi]), id \in RandomIds :
          /\ ~IdMismatch(reply.header.id, forwarded_msg_id)
          /\ received' = reply
          /\ replies' = Append(replies, reply.answers)
          /\ resolved_answers' = CollectAnswers(resolved_answers, reply)
          /\ forwarded_msg_id' = id
          /\ forwardedSent' = Append(forwardedSent,
                                     ForwardedPacket(orig, orig.questions[qi + 1], id))
    /\ qi' = qi + 1
    /\ UNCHANGED <<pc, resolver_address, orig, response, nReceived, nResponded>>

\* the reply to the query of the last question arrives: its answers are collected,
\* the response is built and sent
ReplyAndRespond ==
    /\ pc = "await"
    /\ qi = Len(orig.questions)
    /\ \E reply \in UpstreamReplies(orig.questions[qi]) :
          /\ ~IdMismatch(reply.header.id, forwarded_msg_id)
          /\ received' = reply
          /\ replies' = Append(replies, reply.answers)
          /\ resolved_answers' = CollectAnswers(resolved_answers, reply)
          /\ response' = BuildResponse(orig, CollectAnswers(resolved_answers, reply))
    /\ pc' = "sent"
    /\ nResponded' = nResponded + 1
    /\ UNCHANGED <<resolver_address, orig, qi, forwarded_msg_id, forwardedSent, nReceived>>

\* the end of the iteration: its locals are dropped, resolved_answers is a new Vec,
\* and the loop blocks in recv_from again
LoopAgain ==
    /\ pc = "sent"
    /\ nReceived < MaxInbound
    /\ pc' = "recv"
    /\ orig' = ServerPacketNew
    /\ qi' = 0
    /\ forwarded_msg_id' = 0
    /\ resolved_answers' = <<>>
    /\ forwardedSent' = <<>>
    /\ received' = ServerPacketNew
    /\ replies' = <<>>
    /\ response' = ServerPacketNew
    /\ UNCHANGED <<resolver_address, nReceived, nResponded>>

Next ==
    \/ ReceiveAndForward /\ UNCHANGED <<hvars, pvars, nvars, avars, cvars>>
    \/ ReceiveAndRespond /\ UNCHANGED <<hvars, pvars, nvars, avars, cvars>>
    \/ ReceiveError /\ UNCHANGED <<hvars, pvars, nvars, avars, cvars>>
    \/ ReplyMismatch /\ UNCHANGED <<hvars, pvars, nvars, avars, cvars>>
    \/ ReplyAndForward /\ UNCHANGED <<hvars, pvars, nvars, avars, cvars>>
    \/ ReplyAndRespond /\ UNCHANGED <<hvars, pvars, nvars, avars, cvars>>
    \/ LoopAgain /\ UNCHANGED <<hvars, pvars, nvars, avars, cvars>>

Init == HIdle /\ PIdle /\ NIdle /\ SInit /\ AIdle /\ CIdle

Spec == Init /\ [][Next]_vars

-----------------------------------------------------------------------------
(* Specifications of the codecs                                            *)

SIdle ==
    /\ pc = "idle" /\ resolver_address = FALSE /\ orig = ServerPacketNew /\ qi = 0
    /\ forwarded_msg_id = 0 /\ resolved_answers = <<>> /\ forwardedSent = <<>>
    /\ received = ServerPacketNew /\ replies = <<>> /\ response = ServerPacketNew
    /\ nReceived = 0 /\ nResponded = 0

HeaderNext ==
    \/ HeaderWrite /\ UNCHANGED <<pvars, nvars, svars, avars, cvars>>
    \/ HeaderRead /\ UNCHANGED <<pvars, nvars, svars, avars, cvars>>

InitHeader == HInit /\ PIdle /\ NIdle /\ SIdle /\ AIdle /\ CIdle

SpecHeader == InitHeader /\ [][HeaderNext]_vars

PacketNext ==
    \/ PacketEncode /\ UNCHANGED <<hvars, nvars, svars, avars, cvars>>
    \/ PacketDecode /\ UNCHANGED <<hvars, nvars, svars, avars, cvars>>
    \/ AssemblerEncodeAll /\ UNCHANGED <<hvars, pvars, nvars, svars, cvars>>

InitPacket == HIdle /\ PInit /\ NIdle /\ SIdle /\ AInit /\ CIdle

SpecPacket == InitPacket /\ [][PacketNext]_vars

NamesNext ==
    \/ WriteRecord /\ UNCHANGED <<hvars, pvars, svars, avars, cvars>>
    \/ ReadRecord /\ UNCHANGED <<hvars, pvars, svars, avars, cvars>>

InitNames == HIdle /\ PIdle /\ NInit /\ SIdle /\ AIdle /\ CIdle

SpecNames == InitNames /\ [][NamesNext]_vars

ClassNext ==
    \/ ClassIntoU16 /\ UNCHANGED <<hvars, pvars, nvars, svars, avars>>
    \/ ClassFromU16 /\ UNCHANGED <<hvars, pvars, nvars, svars, avars>>

InitClass == HIdle /\ PIdle /\ NIdle /\ SIdle /\ AIdle /\ CInit

SpecClass == InitClass /\ [][ClassNext]_vars

-----------------------------------------------------------------------------
(* Claims on the codecs                                                    *)

\* question_entries equals the length of the question list; the packet of packet.rs
\* stores no answers, so its answer list has length 0
ConsistentCounts(p) ==
    /\ p.header.question_entries = Len(p.questions)
    /\ p.header.answer_entries = 0

\* C1: for every packet with consistent counts (labels at most 63 octets), decoding
\* the bytes of its encoding yields a packet equal to the original.
C1_PacketRoundTrip ==
    (ConsistentCounts(p0) /\ ppc \in {"decoded", "panicked"})
        => (ppc = "decoded" /\ pdec = p0)

\* C2: a name identical to a name written in full earlier in the packet is emitted as
\* a 2-byte pointer whose low 14 bits are the buffer offset of the first occurrence's
\* first length octet, and the two names decode string-equal.
C2_IdenticalNamePointer ==
    \A j \in 1 .. Len(written) : \A i \in 1 .. (j - 1) :
        (written[i].name = written[j].name /\ ~written[i].pointer /\ written[j].name # <<>>)
            => /\ Len(written[j].bytes) = 2
               /\ written[j].bytes[1] \div 64 = 3
               /\ GetU16(written[j].bytes, 1) % 16384 = written[i].offset
               /\ npc # "panicked"
               /\ (npc = "done" => rnames[i] = rnames[j])

\* s is a proper suffix of n that starts at a label of n
IsLabelSuffix(s, n) ==
    /\ s # <<>>
    /\ Len(s) < Len(n)
    /\ SubSeq(n, Len(n) - Len(s) + 1, Len(n)) = s
    /\ n[Len(n) - Len(s)] = Dot

\* C3: a later name equal to a proper label-suffix of an earlier fully written name is
\* emitted as a pointer to the offset recorded for that suffix; when the earlier name
\* is the packet's first name and the suffix follows it directly, that offset is the
\* byte offset of the suffix's first length octet inside the first name's labels.
C3_SuffixPointer ==
    LET j == Len(written)
        s == written[j].name
    IN (j >= 2 /\ \E i \in 1 .. (j - 1) :
                     ~written[i].pointer /\ IsLabelSuffix(s, written[i].name))
       => /\ Len(written[j].bytes) = 2
          /\ written[j].bytes[1] \div 64 = 3
          /\ s \in DOMAIN wtable.compression
          /\ GetU16(written[j].bytes, 1) % 16384 = wtable.compression[s]
          /\ (j = 2 /\ IsLabelSuffix(s, written[1].name))
               => LET off == HeaderLen + Len(written[1].name) - Len(s)
                  IN /\ GetU16(written[j].bytes, 1) % 16384 = off
                     /\ SubSeq(nbuf, off + 1, off + Len(s) + 1) = PutLabels(s)

\* "mail.example.com." then "example.com.": the second name is the pointer to offset 17
C3_Witness ==
    /\ Len(written) = 2
    /\ written[1].name = MailExampleCom
    /\ written[2].name = ExampleCom
    /\ written[2].bytes = <<192, 17>>

\* C4: for every header value, decoding the 12 bytes of its encoding yields a header
\* equal to it in every field.
C4_HeaderValueRoundTrip ==
    (hmode = "value" /\ hpc = "done") => hv = h0

\* C5: for any 12-byte header input, encoding the decoded header reproduces the input
\* byte for byte.
C5_HeaderBytesRoundTrip ==
    (hmode = "bytes" /\ hpc = "done") => hb = b0

-----------------------------------------------------------------------------
(* Claims on the loop of main.rs                                           *)

\* the concatenation of the lists of a list
Flatten(lists) ==
    LET RECURSIVE Go(_)
        Go(i) == IF i > Len(lists) THEN <<>> ELSE lists[i] \o Go(i + 1)
    IN Go(1)

\* C6: with a resolver configured, the answer list of the response sent is the
\* concatenation, in question order, of the answer lists of the upstream replies
\* (also when every reply carries no answer); the fixed-address records appear only
\* when no resolver is configured.
C6_MergedAnswers ==
    (pc = "sent" /\ resolver_address) => response.answers = Flatten(replies)

\* C7 as stated: N questions and a resolver give exactly N forwarded packets, the i-th
\* holding only the i-th question with question_entries = 1, their ids pairwise distinct.
C7_DistinctIds ==
    (pc = "sent" /\ resolver_address)
        => /\ Len(forwardedSent) = Len(orig.questions)
           /\ \A i \in 1 .. Len(forwardedSent) :
                 /\ forwardedSent[i].questions = <<orig.questions[i]>>
                 /\ forwardedSent[i].header.question_entries = 1
           /\ \A i, j \in 1 .. Len(forwardedSent) :
                 i # j => forwardedSent[i].header.id # forwardedSent[j].header.id

\* C7 as amended: when the response is sent exactly N packets have been forwarded (one
\* more than the replies received while a reply is awaited, none without a resolver),
\* the i-th holding only the i-th question with question_entries = 1.
C7_OneQueryPerQuestion ==
    /\ \A i \in 1 .. Len(forwardedSent) :
          /\ forwardedSent[i].questions = <<orig.questions[i]>>
          /\ forwardedSent[i].header.question_entries = 1
    /\ (pc = "sent" /\ resolver_address) => Len(forwardedSent) = Len(orig.questions)
    /\ pc = "await" => Len(forwardedSent) = Len(replies) + 1
    /\ ~resolver_address => forwardedSent = <<>>

\* two questions were forwarded under the same random id and the response was sent
C7_Witness ==
    /\ pc = "sent"
    /\ resolver_address
    /\ Len(orig.questions) = 2
    /\ Len(forwardedSent) = 2
    /\ forwardedSent[1].header.id = forwardedSent[2].header.id

\* C8: a reply whose id differs from the id just sent ends the run: no retry, no
\* further forwarded query, no response datagram.
C8_IdMismatchFatal ==
    [][/\ (pc = "await" /\ Len(replies') = Len(replies) + 1
              /\ received'.header.id # forwarded_msg_id)
           => (pc' = "failed" /\ nResponded' = nResponded
               /\ forwardedSent' = forwardedSent /\ response' = ServerPacketNew)
       /\ pc = "failed"
           => (pc' = "failed" /\ UNCHANGED <<nResponded, forwardedSent, response>>)]_vars

\* the reply to the first of two questions had another id: the second was never sent
C8_Witness ==
    /\ pc = "failed"
    /\ Len(orig.questions) = 2
    /\ Len(forwardedSent) = 1
    /\ received.header.id # forwarded_msg_id
    /\ nResponded = nReceived - 1

\* C9: without a resolver the response to an inbound query of k questions carries the
\* inbound id, response = TRUE, the k questions in order and k answers, the i-th an A/IN
\* record named as the i-th question with TTL 60 and address 8.8.8.8.
C9_SyntheticAnswers ==
    (pc = "sent" /\ ~resolver_address)
        => LET k == Len(orig.questions)
           IN /\ response.header.id = orig.header.id
              /\ response.header.response = TRUE
              /\ response.questions = orig.questions
              /\ response.header.question_entries = k
              /\ response.header.answer_entries = k
              /\ Len(response.answers) = k
              /\ \A i \in 1 .. k :
                    response.answers[i] =
                        [domain_name |-> orig.questions[i].domain_name,
                         record_type |-> <<"A">>, class |-> <<"IN">>,
                         ttl |-> 60, length |-> 4, data |-> <<8, 8, 8, 8>>]

\* a query of two different questions answered without a resolver
C9_Witness ==
    /\ pc = "sent"
    /\ ~resolver_address
    /\ Len(orig.questions) = 2
    /\ orig.questions[1] # orig.questions[2]
    /\ Len(response.answers) = 2

\* C10: every response has rescode NOTIMP when the inbound opcode is not 0 and NOERROR
\* when it is 0, with id, opcode and recursion_desired copied from the inbound header,
\* with or without a resolver and whatever rescode the replies carry.
C10_ResponseHeader ==
    pc = "sent"
        => /\ response.header.rescode =
                 (IF orig.header.opcode # 0 THEN "NOTIMP" ELSE "NOERROR")
           /\ response.header.id = orig.header.id
           /\ response.header.opcode = orig.header.opcode
           /\ response.header.recursion_desired = orig.header.recursion_desired

\* a response to a query of opcode 2 after a reply of rescode SERVFAIL
C10_Witness ==
    /\ pc = "sent"
    /\ resolver_address
    /\ orig.header.opcode = 2
    /\ orig.header.recursion_desired
    /\ received.header.rescode = "SERVFAIL"
    /\ response.header.rescode = "NOTIMP"

\* the complete question entry that DnsQuestion::write_bytes emits: the name's labels,
\* the type and the class
CompleteQuestion(q) ==
    PutLabels(q.domain_name) \o PutU16(QueryTypeIntoU16(<<"A">>))
        \o PutU16(QueryClassIntoU16(<<"IN">>))

\* the first k questions of qs, each as a complete entry
FirstQuestions(qs, k) ==
    LET RECURSIVE Go(_)
        Go(i) == IF i > k THEN <<>> ELSE CompleteQuestion(qs[i]) \o Go(i + 1)
    IN Go(1)

\* C11: the encoding of a packet with question_entries = k is the header followed by
\* exactly the first k entries of the question list, each as a complete question
\* (name, type, class), and nothing of any entry beyond the k-th, however long the
\* list is.
C11_FirstKQuestions ==
    ppc = "encoded"
        => pbuf = HeaderWriteBytes(p0.header)
                    \o FirstQuestions(p0.questions, p0.header.question_entries)

-----------------------------------------------------------------------------
(* Claims on received messages                                             *)

\* the 1-based index just after the name that starts at index i of buf
WireNameEnd(buf, i) ==
    LET RECURSIVE Go(_)
        Go(k) == IF buf[k] = 0 THEN k + 1
                 ELSE IF buf[k] \div 64 = 3 THEN k + 2
                 ELSE Go(k + 1 + buf[k])
    IN Go(i)

\* the offset designated by the pointer that ends the name at index i of buf, or -1
\* when the name ends with the zero octet
PointerAt(buf, i) ==
    LET RECURSIVE Go(_)
        Go(k) == IF buf[k] = 0 THEN -1
                 ELSE IF buf[k] \div 64 = 3 THEN (buf[k] % 64) * 256 + buf[k + 1]
                 ELSE Go(k + 1 + buf[k])
    IN Go(i)

\* the 1-based index at which the name of the k-th record of buf starts
RecordStart(buf, k) ==
    LET RECURSIVE Go(_)
        Go(j) == IF j = 1 THEN HeaderLen + 1
                 ELSE WireNameEnd(buf, Go(j - 1)) + Len(RecordTail)
    IN Go(k)

\* the records whose read has been attempted: those read, and the one that failed
RecordsAttempted == Len(rnames) + (IF npc = "panicked" THEN 1 ELSE 0)

\* every entry offset -> suffix of the decompression table lies where the labels of
\* that suffix stand in the message
TableOffsetsTrue ==
    \A pos \in DOMAIN rtable.decompression :
        LET labels == PutLabels(rtable.decompression[pos])
        IN /\ pos + Len(labels) <= Len(nbuf)
           /\ SubSeq(nbuf, pos + 1, pos + Len(labels)) = labels

\* a name that is a pointer to the true starting offset of an earlier name written in
\* full is read as that name
PointerToEarlierName ==
    \A j \in 2 .. RecordsAttempted : \A i \in 1 .. (j - 1) :
        (/\ nbuf[RecordStart(nbuf, i)] \in 1 .. 63
         /\ PointerAt(nbuf, RecordStart(nbuf, i)) = -1
         /\ nbuf[RecordStart(nbuf, j)] \div 64 = 3
         /\ PointerAt(nbuf, RecordStart(nbuf, j)) = RecordStart(nbuf, i) - 1)
            => (j <= Len(rnames) /\ rnames[j] = rnames[i])

\* C13: after any sequence of name reads, every entry offset -> suffix of the
\* decompression table has as offset the byte position of the message at which that
\* suffix's first length octet was read, so that a pointer to the true starting offset
\* of any name read earlier, the first or a later one, resolves to exactly that name.
C13_DecodeOffsets ==
    npc \in {"read", "done", "panicked"}
        => (TableOffsetsTrue /\ PointerToEarlierName)

-----------------------------------------------------------------------------
(* Claims on the packets of the loop                                       *)

\* the declared counts of p equal the lengths of its lists
CountsMatch(p) ==
    /\ p.header.question_entries = Len(p.questions)
    /\ p.header.answer_entries = Len(p.answers)

\* C14: every packet the loop hands to the encoder, each forwarded query and the
\* final response, has len(questions) = question_entries and
\* len(answers) = answer_entries, for every decodable inbound packet, those that
\* carry a non-zero answer count included.
C14_EncoderCounts ==
    /\ \A k \in 1 .. Len(forwardedSent) : CountsMatch(forwardedSent[k])
    /\ pc = "sent" => CountsMatch(response)

\* what one step of the loop may do to the traffic: queries sent upstream
\* (forwardedSent), replies received (replies), inbound datagrams received (nReceived)
\* and responses sent (nResponded)
SequentialStep ==
    \* a query is sent upstream only once the replies to all earlier ones are in
    /\ (forwardedSent' # forwardedSent /\ forwardedSent' # <<>>)
          => /\ Len(forwardedSent') = Len(forwardedSent) + 1
             /\ Len(replies') = Len(forwardedSent)
    \* at most one upstream query is outstanding
    /\ Len(forwardedSent') - Len(replies') \in {0, 1}
    \* the response is sent only after the replies for all questions have arrived
    /\ nResponded' # nResponded
          => /\ nResponded' = nResponded + 1
             /\ Len(replies') = Len(forwardedSent')
             /\ resolver_address => Len(replies') = Len(orig'.questions)
    \* the next inbound datagram is received only after the response to the current one
    /\ nReceived' # nReceived
          => /\ nReceived' = nReceived + 1
             /\ nResponded = nReceived
    \* while a reply is missing nothing else happens
    /\ (Len(forwardedSent) > Len(replies) /\ Len(replies') = Len(replies))
          => UNCHANGED <<forwardedSent, nReceived, nResponded>>

\* C15: processing is strictly sequential: the query for question i+1 is sent only
\* after the reply to question i has been received, the response is sent only after
\* the replies for all questions have arrived, the next inbound datagram is received
\* only after the response to the current one has been sent, and at most one upstream
\* query is outstanding; while a reply is missing no response is sent and no further
\* inbound datagram is handled.
C15_Sequential == [][SequentialStep]_vars

\* the second inbound packet, its first query answered and its second outstanding
C15_Witness ==
    /\ pc = "await"
    /\ nReceived = 2
    /\ nResponded = 1
    /\ Len(forwardedSent) = 2
    /\ Len(replies) = 1

\* the name about to be read ends with a pointer to an offset the table has not recorded
UnrecordedPointerNext ==
    /\ npc = "read"
    /\ PointerAt(nbuf, rcur) # -1
    /\ PointerAt(nbuf, rcur) \notin DOMAIN rtable.decompression

\* C16: reading a name whose compression pointer designates an offset never recorded
\* in the decompression table is a hard failure: no name is returned and the decode of
\* the packet does not complete.
C16_UnrecordedPointerFatal ==
    [][/\ UnrecordedPointerNext => (npc' = "panicked" /\ rnames' = rnames)
       /\ npc # "panicked"]_vars

\* the first name is read in full, the second points to an offset where no name was
\* recorded, and the decode stops there
C16_Witness ==
    /\ npc = "panicked"
    /\ Len(rnames) = 1
    /\ GetU16(nbuf, 7) >= 2
    /\ PointerAt(nbuf, RecordStart(nbuf, 2)) = HeaderLen + 28
    /\ (HeaderLen + 28) \notin DOMAIN rtable.decompression

-----------------------------------------------------------------------------
(* Claims on the class codec                                               *)

\* the class a 16-bit code stands for: 1, 2, 3, 4 and 255 are IN, CS, CH, HS and ANY
ClassOfCode(n) ==
    CASE n = 1 -> <<"IN">>
      [] n = 2 -> <<"CS">>
      [] n = 3 -> <<"CH">>
      [] n = 4 -> <<"HS">>
      [] n = 255 -> <<"ANY">>
      [] OTHER -> <<"UNKNOWN", n>>

\* C17: decoding a 16-bit class code maps 1, 2, 3, 4 and 255 to IN, CS, CH, HS and ANY
\* and every other value n to UNKNOWN(n), so that converting a class variant to its
\* code and decoding that code reproduces the variant.
C17_ClassRoundTrip ==
    /\ (cmode = "code" /\ cpc = "decoded") => cclass = ClassOfCode(ccode)
    /\ (cmode = "variant" /\ cpc = "done") => cclass = c0

====
